---- MODULE Spec2Model ----
(***************************************************************************)
(* sqlxinsert: the derive macros SqliteInsert and PgInsert (src/lib.rs).   *)
(*                                                                         *)
(* Text is modelled as a sequence of one-character strings, so that the    *)
(* exact spacing of the generated statement is part of the model.          *)
(***************************************************************************)
EXTENDS Integers, Sequences, FiniteSets, TLC

VARIABLES
    input,        \* the struct definition the derives are applied to
    printer,      \* how the toolchain prints a TokenStream
    self,         \* the struct instance the generated methods are called on
    sqliteImpl,   \* what #[derive(SqliteInsert)] expanded to
    pgImpl,       \* what #[derive(PgInsert)] expanded to
    txState,      \* the caller's sqlx::Transaction
    calls,        \* calls of insert_raw and of insert made so far
    attempts,     \* statements the pool and the transaction were handed
    last,         \* the most recent call of a generated method
    arity,        \* the argument the next call of dollar_values gets
    dv            \* the most recent call of dollar_values

vars ==
    <<input, printer, self, sqliteImpl, pgImpl, txState, calls, attempts,
      last, arity, dv>>

(***************************************************************************)
(* Bounds                                                                  *)
(***************************************************************************)
\* largest arity handed to dollar_values by the SpecDollar harness
MaxArity == 12

\* largest number of named fields of the struct the macros are applied to
MaxFields == 3

\* largest number of insert_raw / insert calls in one behaviour
MaxCalls == 2

\* largest number of rows the server sends back for one statement
MaxRows == 2

(***************************************************************************)
(* Text helpers                                                            *)
(***************************************************************************)
\* [String]::join(sep)
RECURSIVE Join(_, _)
Join(v, sep) ==
    IF Len(v) = 0 THEN <<>>
    ELSE IF Len(v) = 1 THEN v[1]
    ELSE Join(SubSeq(v, 1, Len(v) - 1), sep) \o sep \o v[Len(v)]

Digit(d) ==
    <<"0", "1", "2", "3", "4", "5", "6", "7", "8", "9">>[d + 1]

\* Display of a usize, as format!("{}", s) prints it
RECURSIVE Decimal(_)
Decimal(n) ==
    IF n < 10 THEN <<Digit(n)>>
    ELSE Decimal(n \div 10) \o <<Digit(n % 10)>>

(***************************************************************************)
(* fn dollar_values(max: usize) -> String                                  *)
(***************************************************************************)
\* a plausible slip: the range starts at 0
dollar_values_from_zero(max) ==
    Join([s \in 1..max |-> <<"$">> \o Decimal(s - 1)], <<",">>)

dollar_values(max) ==
    LET itr == 1..max                      \* 1..max + 1, upper end excluded
        entries == [s \in itr |-> <<"$">> \o Decimal(s)]
    IN Join(entries, <<",">>)

(***************************************************************************)
(* Inputs                                                                  *)
(***************************************************************************)
Min(a, b) == IF a < b THEN a ELSE b

Range(f) == {f[i] : i \in DOMAIN f}

car_id == <<"c", "a", "r", "_", "i", "d">>

car_name == <<"c", "a", "r", "_", "n", "a", "m", "e">>

color == <<"c", "o", "l", "o", "r">>

name == <<"n", "a", "m", "e">>

cars == <<"c", "a", "r", "s">>

garage == <<"g", "a", "r", "a", "g", "e">>

\* identifiers a struct's fields may carry
NamePool == <<car_id, car_name, color, name>>

FieldNames == {NamePool[i] : i \in 1..Min(MaxFields, Len(NamePool))}

\* field lists of a struct: distinct identifiers, in declaration order
Schemas ==
    {f \in UNION {[1..n -> FieldNames] : n \in 0..Min(MaxFields, Len(NamePool))} :
        \A i, j \in DOMAIN f : i # j => f[i] # f[j]}

\* syn::Data / syn::Fields shapes the derive input may have
Inputs ==
    {[kind |-> "named", fields |-> f] : f \in Schemas}
        \cup {[kind |-> k, fields |-> <<>>] : k \in {"tuple", "unit"}}

\* table: &str
Tables == {cars, garage}

\* the value each field holds in a filled-in instance
Filled(f) ==
    CASE f = car_id -> "33"
      [] f = car_name -> "Skoda"
      [] f = color -> "red"
      [] OTHER -> "Fabia"

\* instances of the struct, a value for every named field: one with a
\* different value in every field, one with the same value in all of them
Instances(fields) ==
    {[f \in Range(fields) |-> Filled(f)], [f \in Range(fields) |-> ""]}

(***************************************************************************)
(* Macro expansion                                                         *)
(***************************************************************************)
\* Display of a TokenStream separates tokens by a space; the compiler's
\* printer puts none before a comma ("tight"), proc_macro2's own printer
\* puts one before every token ("spaced").  Which one runs depends on the
\* toolchain the macro is built with.
Printers == {"spaced", "tight"}

Comma == <<",">>

\* quote! { #( #field_name ),* }
quote_fields(fields) ==
    [i \in 1..(2 * Len(fields) - 1) |->
        IF i % 2 = 1 THEN fields[(i + 1) \div 2] ELSE Comma]

RECURSIVE to_string(_, _)
to_string(tokens, style) ==
    IF Len(tokens) = 0 THEN <<>>
    ELSE IF Len(tokens) = 1 THEN tokens[1]
    ELSE LET tok == tokens[Len(tokens)]
             gap == IF style = "tight" /\ tok = Comma THEN <<>> ELSE <<" ">>
         IN to_string(SubSeq(tokens, 1, Len(tokens) - 1), style) \o gap \o tok

NotDerived == [status |-> "none"]

\* panic!("expected a struct with named fields")
Panicked == [status |-> "panic"]

\* the impl block a derive emits: the two string literals spliced into it
Impl(columns, values) ==
    [status |-> "impl", columns |-> columns, values |-> values]

(***************************************************************************)
(* Generated methods                                                       *)
(***************************************************************************)
InsertInto == <<"i", "n", "s", "e", "r", "t", " ", "i", "n", "t", "o", " ">>

OpenParen == <<" ", "(", " ">>

ValuesParen == <<" ", ")", " ", "v", "a", "l", "u", "e", "s", " ", "(", " ">>

CloseParen == <<" ", ")">>

ReturningAll == <<" ", "r", "e", "t", "u", "r", "n", "i", "n", "g", " ", "*">>

\* a plausible slip: the two spliced literals change places
sqlite_insert_query_swapped(impl, table) ==
    InsertInto \o table \o OpenParen \o impl.values
        \o ValuesParen \o impl.columns \o CloseParen

\* a plausible slip: the padding inside the parentheses is left out
sqlite_insert_query_compact(impl, table) ==
    InsertInto \o table \o <<" ", "(">> \o impl.columns
        \o <<")", " ", "v", "a", "l", "u", "e", "s", " ", "(">> \o impl.values
        \o <<")">>

\* SqliteInsert: format!("insert into {} ( {} ) values ( {} )", ..)
sqlite_insert_query(impl, table) ==
    InsertInto \o table \o OpenParen \o impl.columns
        \o ValuesParen \o impl.values \o CloseParen

\* a plausible slip: the returning clause is left out
pg_insert_query_plain(impl, table) ==
    InsertInto \o table \o OpenParen \o impl.columns
        \o ValuesParen \o impl.values \o CloseParen

\* PgInsert: format!("insert into {} ( {} ) values ( {} ) returning *", ..)
pg_insert_query(impl, table) ==
    InsertInto \o table \o OpenParen \o impl.columns
        \o ValuesParen \o impl.values \o CloseParen \o ReturningAll

\* a plausible slip: the values are bound last field first
bind_reversed(fields, this) ==
    [i \in 1..Len(fields) |-> this[fields[Len(fields) + 1 - i]]]

\* #( .bind(&self.#field_name2) )*
bind(fields, this) ==
    [i \in 1..Len(fields) |-> this[fields[i]]]

Ok(v) == [tag |-> "Ok", val |-> v]

Err(e) == [tag |-> "Err", err |-> e]

\* eyre::Report::from(sqlx::Error), what `?` applies to the error
Report(e) == <<"eyre::Report">> \o e

\* sqlx::sqlite::SqliteQueryResult values the pool may report
QueryResults == {"rowid=1", "rowid=2"}

\* sqlx::Error kinds execute(pool) may fail with
PoolErrors == {"Database", "PoolTimedOut"}

\* what .execute(pool).await evaluates to
PoolReplies ==
    {Ok(r) : r \in QueryResults} \cup {Err(<<e>>) : e \in PoolErrors}

\* result types insert::<T> may be asked for: one whose FromRow accepts the
\* returned columns, one whose FromRow does not
ResultTypes == {"Car", "Mismatch"}

\* what the server answers to the statement sent on the transaction: it
\* rejects it, or sends rows (numbered in arrival order)
TxReplies ==
    {[status |-> "rejected", rows |-> <<>>]}
        \cup {[status |-> "rows", rows |-> [i \in 1..n |-> i]] : n \in 0..MaxRows}

\* T::from_row(&row)
from_row(T, row) ==
    IF T = "Car" THEN Ok([id |-> row]) ELSE Err(<<"ColumnDecode">>)

\* sqlx::query_as::<_, T>(&sql) .. .fetch_one(tx).await: the first row,
\* decoded, or Error::RowNotFound when the statement returned no row
fetch_one(T, reply) ==
    IF reply.status = "rejected" THEN Err(<<"Database">>)
    ELSE IF Len(reply.rows) = 0 THEN Err(<<"RowNotFound">>)
    ELSE from_row(T, reply.rows[1])

\* a plausible slip: a failed execution is reported as a default result
insert_raw_ret_swallow(reply) ==
    IF reply.tag = "Ok" THEN Ok(reply.val) ELSE Ok("rowid=0")

\* Ok(sqlx::query(&sql) .. .execute(pool).await?)
insert_raw_ret(reply) ==
    IF reply.tag = "Ok" THEN Ok(reply.val) ELSE Err(Report(reply.err))

\* a plausible slip: a failed fetch is answered with a default record
insert_ret_or_default(T, reply) ==
    LET res == fetch_one(T, reply)
    IN IF res.tag = "Ok" THEN Ok(res.val) ELSE Ok([id |-> 0])

\* a plausible slip: every failure is mapped to one fixed report
insert_ret_generic(T, reply) ==
    LET res == fetch_one(T, reply)
    IN IF res.tag = "Ok" THEN Ok(res.val) ELSE Err(<<"eyre::Report", "insert failed">>)

\* let res: T = .. .fetch_one(tx).await?; Ok(res)
insert_ret(T, reply) ==
    LET res == fetch_one(T, reply)
    IN IF res.tag = "Ok" THEN Ok(res.val) ELSE Err(Report(res.err))

\* a plausible slip: a failed execution is sent a second time
pool_sends_retry(reply) == IF reply.tag = "Err" THEN 2 ELSE 1

\* statements one insert_raw hands to the pool: the one .execute(pool)
pool_sends(reply) == 1

\* statements one insert hands to the transaction: the one .fetch_one(tx)
tx_sends(reply) == 1

\* a plausible slip: the transaction is committed once the row is fetched
tx_after_insert_commit(tx, ret) ==
    IF ret.tag = "Ok" THEN "committed" ELSE "rolledback"

\* the transaction after insert: tx is only lent to fetch_one
tx_after_insert(tx, ret) == tx

(***************************************************************************)
(* State machine                                                           *)
(***************************************************************************)
NoCall == [op |-> "none", table |-> <<>>]

Init ==
    /\ input \in Inputs
    /\ printer \in Printers
    /\ self \in Instances(input.fields)
    /\ sqliteImpl = NotDerived
    /\ pgImpl = NotDerived
    /\ txState = "none"
    /\ calls = [insert_raw |-> 0, insert |-> 0]
    /\ attempts = [pool |-> 0, tx |-> 0]
    /\ last = NoCall
    /\ arity = 0
    /\ dv = [max |-> 0, ret |-> <<>>, called |-> FALSE]

\* #[proc_macro_derive(SqliteInsert)]
derive_from_struct_sqlite ==
    /\ sqliteImpl = NotDerived
    /\ IF input.kind # "named"
       THEN /\ sqliteImpl' = Panicked
            /\ dv' = dv
       ELSE LET fields == input.fields
                field_length == Len(fields)
                values == dollar_values(field_length)
                columns == to_string(quote_fields(fields), printer)
            IN /\ sqliteImpl' = Impl(columns, values)
               /\ dv' = [max |-> field_length, ret |-> values, called |-> TRUE]
    /\ UNCHANGED <<input, printer, self, pgImpl, txState, calls, attempts,
                   last, arity>>

\* #[proc_macro_derive(PgInsert)]
derive_from_struct_psql ==
    /\ pgImpl = NotDerived
    /\ IF input.kind # "named"
       THEN /\ pgImpl' = Panicked
            /\ dv' = dv
       ELSE LET fields == input.fields
                field_length == Len(fields)
                values == dollar_values(field_length)
                columns == to_string(quote_fields(fields), printer)
            IN /\ pgImpl' = Impl(columns, values)
               /\ dv' = [max |-> field_length, ret |-> values, called |-> TRUE]
    /\ UNCHANGED <<input, printer, self, sqliteImpl, txState, calls, attempts,
                   last, arity>>

\* SqliteInsert: pub fn insert_query(&self, table: &str) -> String
SqliteInsertQuery(table) ==
    /\ sqliteImpl.status = "impl"
    /\ last' = [op |-> "SqliteInsert::insert_query", table |-> table,
                ret |-> sqlite_insert_query(sqliteImpl, table)]
    /\ UNCHANGED <<input, printer, self, sqliteImpl, pgImpl, txState, calls,
                   attempts, arity, dv>>

\* PgInsert: fn insert_query(&self, table: &str) -> String
PgInsertQuery(table) ==
    /\ pgImpl.status = "impl"
    /\ last' = [op |-> "PgInsert::insert_query", table |-> table,
                ret |-> pg_insert_query(pgImpl, table)]
    /\ UNCHANGED <<input, printer, self, sqliteImpl, pgImpl, txState, calls,
                   attempts, arity, dv>>

\* SqliteInsert: pub async fn insert_raw(&self, pool, table)
InsertRaw(table) ==
    /\ sqliteImpl.status = "impl"
    /\ calls.insert_raw + calls.insert < MaxCalls
    /\ \E reply \in PoolReplies :
        /\ last' = [op |-> "insert_raw", table |-> table,
                    sql |-> sqlite_insert_query(sqliteImpl, table),
                    binds |-> bind(input.fields, self),
                    reply |-> reply,
                    ret |-> insert_raw_ret(reply),
                    again |-> last.op = "insert_raw" /\ last.table = table]
        /\ attempts' = [attempts EXCEPT !.pool = @ + pool_sends(reply)]
    /\ calls' = [calls EXCEPT !.insert_raw = @ + 1]
    /\ UNCHANGED <<input, printer, self, sqliteImpl, pgImpl, txState, arity, dv>>

\* PgInsert: pub async fn insert<T>(&self, tx, table)
Insert(table, T) ==
    /\ pgImpl.status = "impl"
    /\ txState = "open"
    /\ calls.insert_raw + calls.insert < MaxCalls
    /\ \E reply \in TxReplies :
        LET ret == insert_ret(T, reply)
        IN /\ last' = [op |-> "insert", table |-> table,
                       sql |-> pg_insert_query(pgImpl, table),
                       binds |-> bind(input.fields, self),
                       T |-> T,
                       reply |-> reply,
                       ret |-> ret,
                       again |-> last.op = "insert" /\ last.table = table]
           /\ attempts' = [attempts EXCEPT !.tx = @ + tx_sends(reply)]
           /\ txState' = tx_after_insert(txState, ret)
    /\ calls' = [calls EXCEPT !.insert = @ + 1]
    /\ UNCHANGED <<input, printer, self, sqliteImpl, pgImpl, arity, dv>>

\* the caller: pool.begin()
Begin ==
    /\ txState = "none"
    /\ txState' = "open"
    /\ UNCHANGED <<input, printer, self, sqliteImpl, pgImpl, calls, attempts,
                   last, arity, dv>>

\* the caller: tx.commit()
Commit ==
    /\ txState = "open"
    /\ txState' = "committed"
    /\ UNCHANGED <<input, printer, self, sqliteImpl, pgImpl, calls, attempts,
                   last, arity, dv>>

\* the caller: tx.rollback()
Rollback ==
    /\ txState = "open"
    /\ txState' = "rolledback"
    /\ UNCHANGED <<input, printer, self, sqliteImpl, pgImpl, calls, attempts,
                   last, arity, dv>>

Next ==
    \/ derive_from_struct_sqlite
    \/ derive_from_struct_psql
    \/ \E table \in Tables : SqliteInsertQuery(table)
    \/ \E table \in Tables : PgInsertQuery(table)
    \/ \E table \in Tables : InsertRaw(table)
    \/ \E table \in Tables, T \in ResultTypes : Insert(table, T)
    \/ Begin
    \/ Commit
    \/ Rollback

Spec == Init /\ [][Next]_vars

(***************************************************************************)
(* dollar_values on its own: any arity, call after call                    *)
(***************************************************************************)
InitDollar ==
    /\ input = [kind |-> "unit", fields |-> <<>>]
    /\ printer = "tight"
    /\ self = <<>>
    /\ sqliteImpl = NotDerived
    /\ pgImpl = NotDerived
    /\ txState = "none"
    /\ calls = [insert_raw |-> 0, insert |-> 0]
    /\ attempts = [pool |-> 0, tx |-> 0]
    /\ last = NoCall
    /\ arity \in 0..MaxArity
    /\ dv = [max |-> 0, ret |-> <<>>, called |-> FALSE]

DollarValues ==
    /\ dv' = [max |-> arity, ret |-> dollar_values(arity), called |-> TRUE]
    /\ arity' \in 0..MaxArity
    /\ UNCHANGED <<input, printer, self, sqliteImpl, pgImpl, txState, calls,
                   attempts, last>>

NextDollar == DollarValues

SpecDollar == InitDollar /\ [][NextDollar]_vars

(***************************************************************************)
(* Reading generated text back: used by the properties only                *)
(***************************************************************************)
\* the pieces of text between the occurrences of the character c
RECURSIVE Split(_, _)
Split(text, c) ==
    IF Len(text) = 0 THEN << <<>> >>
    ELSE LET rest == Split(Tail(text), c)
         IN IF Head(text) = c THEN << <<>> >> \o rest
            ELSE << <<Head(text)>> \o rest[1] >> \o Tail(rest)

\* the entries of a comma-joined list; an empty text lists nothing
Entries(text) == IF Len(text) = 0 THEN <<>> ELSE Split(text, ",")

DigitChars == {"0", "1", "2", "3", "4", "5", "6", "7", "8", "9"}

DigitValue(c) == CHOOSE d \in 0..9 : Digit(d) = c

IsDecimal(t) ==
    /\ Len(t) >= 1
    /\ \A i \in DOMAIN t : t[i] \in DigitChars
    /\ (Len(t) > 1 => t[1] # "0")

RECURSIVE ParseDecimal(_)
ParseDecimal(t) ==
    IF Len(t) = 0 THEN 0
    ELSE 10 * ParseDecimal(SubSeq(t, 1, Len(t) - 1)) + DigitValue(t[Len(t)])

\* text without its leading and trailing spaces
RECURSIVE Trim(_)
Trim(t) ==
    IF Len(t) = 0 THEN t
    ELSE IF Head(t) = " " THEN Trim(Tail(t))
    ELSE IF t[Len(t)] = " " THEN Trim(SubSeq(t, 1, Len(t) - 1))
    ELSE t

EndsWith(t, suffix) ==
    /\ Len(t) >= Len(suffix)
    /\ SubSeq(t, Len(t) - Len(suffix) + 1, Len(t)) = suffix

\* text is "$1,$2,...,$n": n entries, the i-th "$" and the decimal of i
IsPlaceholderList(text, n) ==
    LET e == Entries(text)
    IN /\ Len(e) = n
       /\ \A i \in 1..Len(e) :
            /\ Len(e[i]) >= 2
            /\ e[i][1] = "$"
            /\ IsDecimal(Tail(e[i]))
            /\ ParseDecimal(Tail(e[i])) = i
       /\ \A k \in DOMAIN text : text[k] # " "

(***************************************************************************)
(* Properties                                                              *)
(***************************************************************************)
\* C1: for every arity N >= 1, dollar_values(N) is exactly the N entries
\* "$1", ..., "$N" joined by "," without whitespace, numbered from 1,
\* ascending and contiguous; N = 3 gives "$1,$2,$3".
C1_DollarValues ==
    (dv.called /\ dv.max >= 1) =>
        /\ IsPlaceholderList(dv.ret, dv.max)
        /\ (dv.max = 3 => dv.ret = <<"$", "1", ",", "$", "2", ",", "$", "3">>)

\* dollar_values was called with an arity of two digits
C1_Witness == dv.called /\ dv.max >= 10 /\ Len(dv.ret) > 0

\* the statement text the claim C2 words: the names joined by a bare ","
PlainTextBareCommas(table, fields) ==
    <<"i", "n", "s", "e", "r", "t", " ", "i", "n", "t", "o", " ">> \o table
        \o <<" ", "(", " ">> \o Join(fields, <<",">>)
        \o <<" ", ")", " ", "v", "a", "l", "u", "e", "s", " ", "(", " ">>
        \o Join([i \in 1..Len(fields) |-> <<"$">> \o Decimal(i)], <<",">>)
        \o <<" ", ")">>

\* the statement text with the names separated by sep instead
PlainTextSeparated(table, fields, sep) ==
    <<"i", "n", "s", "e", "r", "t", " ", "i", "n", "t", "o", " ">> \o table
        \o <<" ", "(", " ">> \o Join(fields, sep)
        \o <<" ", ")", " ", "v", "a", "l", "u", "e", "s", " ", "(", " ">>
        \o Join([i \in 1..Len(fields) |-> <<"$">> \o Decimal(i)], <<",">>)
        \o <<" ", ")">>

\* C2 as claimed: for fields f1..fN (N >= 1) and table t, SqliteInsert's
\* insert_query returns "insert into t ( C ) values ( P )" with C the field
\* names in declaration order joined by "," without whitespace around the
\* commas and P = "$1,...,$N".
C2_AsClaimed ==
    (last.op = "SqliteInsert::insert_query" /\ Len(input.fields) >= 1) =>
        last.ret = PlainTextBareCommas(last.table, input.fields)

\* C2 amended: the same text, but the names in C are separated by a comma
\* followed by one space, and (with the token printer that spaces every
\* token) also preceded by one; a single name stands alone.  P is still
\* "$1,...,$N" without whitespace.
C2_InsertQueryText ==
    (last.op = "SqliteInsert::insert_query" /\ Len(input.fields) >= 1) =>
        /\ last.ret \in
              {PlainTextSeparated(last.table, input.fields, <<",", " ">>),
               PlainTextSeparated(last.table, input.fields, <<" ", ",", " ">>)}
        /\ (Len(input.fields) = 1 =>
              last.ret = PlainTextBareCommas(last.table, input.fields))

\* insert_query was called for struct { car_id, car_name } and table cars
C2_Witness ==
    /\ last.op = "SqliteInsert::insert_query"
    /\ input.fields = <<car_id, car_name>>
    /\ last.table = cars

\* C3: for every schema and table, PgInsert's insert_query text is
\* SqliteInsert's insert_query text for the same schema and table with
\* " returning *" appended and nothing else changed.
C3_ReturningSuffix ==
    (sqliteImpl.status = "impl" /\ pgImpl.status = "impl") =>
        /\ \A t \in Tables :
              pg_insert_query(pgImpl, t) =
                 sqlite_insert_query(sqliteImpl, t)
                    \o <<" ", "r", "e", "t", "u", "r", "n", "i", "n", "g", " ", "*">>
        /\ (last.op = "PgInsert::insert_query" =>
              last.ret = sqlite_insert_query(sqliteImpl, last.table)
                            \o <<" ", "r", "e", "t", "u", "r", "n", "i", "n", "g", " ", "*">>)

\* both derives expanded and PgInsert's insert_query was called
C3_Witness ==
    /\ sqliteImpl.status = "impl"
    /\ last.op = "PgInsert::insert_query"
    /\ Len(input.fields) >= 2

\* the impl block the last insert_raw / insert call belongs to
ImplOf(op) == IF op = "insert_raw" THEN sqliteImpl ELSE pgImpl

\* the names the column list of an impl block spells, in order
ColumnNames(impl) ==
    LET e == Entries(impl.columns)
    IN [i \in 1..Len(e) |-> Trim(e[i])]

\* C4: in insert_raw and in insert, for fields declared f1..fN the bind
\* sequence attached to the statement has exactly N values, the i-th being
\* the value of field fi, where fi is also the i-th name of the column list
\* and matches placeholder $i: never reordered, shortened or lengthened.
C4_BindParity ==
    (last.op \in {"insert_raw", "insert"}) =>
        LET impl == ImplOf(last.op)
            names == ColumnNames(impl)
            N == Len(input.fields)
        IN /\ Len(last.binds) = N
           /\ Len(names) = N
           /\ IsPlaceholderList(impl.values, N)
           /\ \A i \in 1..N :
                /\ names[i] = input.fields[i]
                /\ last.binds[i] = self[names[i]]

\* insert ran on an instance of a three-field struct whose fields all
\* hold different values
C4_Witness ==
    /\ last.op = "insert"
    /\ Len(input.fields) = 3
    /\ \A f, g \in Range(input.fields) : f # g => self[f] # self[g]
    /\ Len(last.binds) = 3

\* C5 as claimed: insert succeeds only when the statement returns exactly
\* one row; with zero rows, and with two or more rows, it returns an error
\* and no decoded record.
C5_AsClaimed ==
    (last.op = "insert" /\ last.reply.status = "rows"
        /\ Len(last.reply.rows) # 1) => last.ret.tag = "Err"

\* C5 amended: insert succeeds only when the statement returns at least
\* one row.  With zero rows it returns an error and no decoded record; with
\* one or more rows the first row alone is decoded and decides the outcome,
\* any further row is ignored.
C5_FirstRowDecides ==
    (last.op = "insert" /\ last.reply.status = "rows") =>
        /\ (Len(last.reply.rows) = 0 => last.ret.tag = "Err")
        /\ (last.ret.tag = "Ok" =>
              /\ Len(last.reply.rows) >= 1
              /\ last.ret.val = [id |-> last.reply.rows[1]])
        /\ (Len(last.reply.rows) >= 1 =>
              last.ret.tag = (IF last.T = "Car" THEN "Ok" ELSE "Err"))

\* insert got two rows back and returned the first one
C5_Witness ==
    /\ last.op = "insert"
    /\ last.reply.status = "rows"
    /\ Len(last.reply.rows) = 2
    /\ last.ret.tag = "Ok"

\* C6: insert_raw returns Ok(r) exactly when the pool's execution succeeded
\* with result r, r unchanged, and an error exactly when the execution
\* failed; a failure is never reported as success and the driver's error is
\* never swallowed.
C6_InsertRawPassThrough ==
    (last.op = "insert_raw") =>
        /\ (last.ret.tag = "Ok") = (last.reply.tag = "Ok")
        /\ (last.reply.tag = "Ok" => last.ret = Ok(last.reply.val))
        /\ (last.reply.tag = "Err" =>
              /\ last.ret.tag = "Err"
              /\ \A k \in Range(last.reply.err) : k \in Range(last.ret.err))

\* insert_raw ran and the pool answered with a database error
C6_Witness ==
    /\ last.op = "insert_raw"
    /\ last.reply = Err(<<"Database">>)

\* C7: insert never begins, commits or rolls back the caller's transaction:
\* a transaction open when insert is called is still open when insert
\* returns, on the success path and on every error path.
C7_InsertLeavesTxOpen ==
    [][(calls.insert' # calls.insert) =>
          (txState = "open" /\ txState' = "open")]_vars

\* insert was called twice on the transaction, the second call returned
\* an error, and the transaction is open
C7_Witness ==
    /\ last.op = "insert"
    /\ last.ret.tag = "Err"
    /\ calls.insert = 2
    /\ txState = "open"

\* C8: each call of insert_raw and of insert hands exactly one statement to
\* its collaborator, whether the execution succeeds or fails: after k calls
\* exactly k attempts were issued, none deduplicated, none retried.
C8_OneAttemptPerCall ==
    /\ attempts.pool = calls.insert_raw
    /\ attempts.tx = calls.insert

\* insert_raw was called a second time for the same instance and table,
\* and that execution failed
C8_Witness ==
    /\ last.op = "insert_raw"
    /\ last.again
    /\ calls.insert_raw = 2
    /\ last.reply.tag = "Err"

\* the sqlx::Error a returned report was built from
Cause(ret) == ret.err[Len(ret.err)]

\* C9: when insert fails because the returned row cannot be decoded into
\* the result type, the error it returns is a decode error, distinct from
\* the one it returns when the server rejects the statement: the kind the
\* collaborator produced is kept in the returned failure.
C9_ErrorKindKept ==
    (last.op = "insert") =>
        /\ (last.reply.status = "rejected" =>
              last.ret.tag = "Err" /\ Cause(last.ret) = "Database")
        /\ (last.reply.status = "rows" /\ Len(last.reply.rows) >= 1
               /\ last.T = "Mismatch" =>
              /\ last.ret.tag = "Err"
              /\ Cause(last.ret) = "ColumnDecode"
              /\ last.ret # insert_ret(last.T, [status |-> "rejected", rows |-> <<>>]))

\* insert got one row back that the result type does not decode
C9_Witness ==
    /\ last.op = "insert"
    /\ last.reply.status = "rows"
    /\ Len(last.reply.rows) = 1
    /\ last.T = "Mismatch"
    /\ last.ret.tag = "Err"

\* C10: dollar_values(0) is the empty string, and a struct with zero named
\* fields is not rejected: insert_query still returns text, whose values
\* clause is exactly "values (  )".
C10_ZeroFields ==
    /\ (dv.called /\ dv.max = 0 => dv.ret = <<>>)
    /\ (input.kind = "named" /\ input.fields = <<>> =>
          /\ sqliteImpl.status # "panic"
          /\ pgImpl.status # "panic"
          /\ (sqliteImpl.status = "impl" => sqliteImpl.values = <<>>)
          /\ (last.op = "SqliteInsert::insert_query" =>
                /\ EndsWith(last.ret,
                      <<" ", "v", "a", "l", "u", "e", "s", " ", "(", " ", " ", ")">>)
                /\ last.ret = <<"i", "n", "s", "e", "r", "t", " ", "i", "n", "t", "o", " ">>
                                 \o last.table
                                 \o <<" ", "(", " ", " ", ")", " ", "v", "a", "l", "u", "e", "s",
                                      " ", "(", " ", " ", ")">>))

\* insert_query was called on a struct with no fields
C10_Witness ==
    /\ input.kind = "named"
    /\ input.fields = <<>>
    /\ dv.called
    /\ last.op = "SqliteInsert::insert_query"

====
